---- MODULE Spec2Model ----
(***************************************************************************)
(* The registration archiving pipeline of website/archiver: the celery     *)
(* tasks of tasks.py (stat_addon, archive_node, archive_addon,             *)
(* make_copy_request, archive_success and the ArchiverTask.on_failure      *)
(* hook) and handle_archive_fail of utils.py, for one ArchiveJob whose     *)
(* destination registration is the root of its registration tree.          *)
(*                                                                         *)
(* ArchiveJob (website/archiver/model.py), the signal listeners            *)
(* (website/archiver/listeners.py) and the file-copy service's completion  *)
(* hook are not part of the sources at hand; the definitions that stand    *)
(* for them follow the written specification and say so.                   *)
(*                                                                         *)
(* Spec is the whole pipeline. SpecFinal is archive_success alone, over    *)
(* every registration metadata and file map within the bounds; SpecStat is *)
(* the stat stage alone, over every list of file trees within the bounds.  *)
(***************************************************************************)
EXTENDS Integers, Sequences, FiniteSets

\* ------------------------------------------------------------- constants

\* website.archiver status constants imported by tasks.py (lines 12-21).
ARCHIVER_INITIATED == "INITIATED"
ARCHIVER_SUCCESS == "SUCCESS"
ARCHIVER_FAILURE == "FAILURE"
ARCHIVER_SIZE_EXCEEDED == "SIZE_EXCEEDED"
ARCHIVER_NETWORK_ERROR == "NETWORK_ERROR"
ARCHIVER_FILE_NOT_FOUND == "FILE_NOT_FOUND"
ARCHIVER_UNCAUGHT_ERROR == "UNCAUGHT_ERROR"

\* settings.MAX_ARCHIVE_SIZE, scaled down to the model's disk usages.
MAX_ARCHIVE_SIZE == 2

\* Bounds of the model: files per add-on and the disk usage one add-on reports.
MaxFiles == 1
MaxUsage == 3

\* Bounds of the registration's metadata: embedded file references and files
\* of the registration tree.
MaxRefs == 2
MaxMapFiles == 2

\* Bounds of the file trees an add-on reports: nodes (files and folders) of
\* all the trees of a job together, and the size of one file.
MaxNodes == 4
MaxSize == 2

\* Bound of the folder names given to make_waterbutler_payload: characters.
MaxNameLen == 3

\* The exceptions a task can end with, as on_failure tells them apart: the
\* three classes it names and any other ("Other").
Exceptions == {"ArchiverSizeExceeded", "HTTPError", "ArchivedFileNotFound", "Other"}

\* The target names a job can carry, in the order of job.target_addons. A
\* dataverse add-on is entered as two targets told apart by their suffix, the
\* convention stat_addon decodes.
TargetOrder == <<"box", "dataverse-draft", "dataverse-published", "osfstorage">>

AllTargets == {TargetOrder[i] : i \in 1..Len(TargetOrder)}

\* The target sets of the jobs modelled: no add-on, osfstorage alone, osfstorage and box,
\* dataverse alone.
JobShapes ==
    {{}, {"osfstorage"}, {"box", "osfstorage"},
     {"dataverse-draft", "dataverse-published"}}

\* What one stat_addon task can return: the num_files and disk_usage of the
\* AggregateStatResult it builds (an add-on without files uses no space).
StatOutcomes ==
    {o \in [num_files : 0..MaxFiles, disk_usage : 0..MaxUsage] :
        o.num_files = 0 => o.disk_usage = 0}

NoResult == [num_files |-> -1, disk_usage |-> 0]

\* ----------------------------------------------------------------- state

VARIABLES
    target_addons,    \* job.target_addons: target name -> status
    status,           \* job.status
    sent,             \* job.sent
    no_limit,         \* NO_ARCHIVE_LIMIT in job.initiator.system_tags
    prereg,           \* the Prereg Challenge schema is in dst.registered_schema
    registered_meta,  \* dst.registered_meta of that schema: the file references
    file_map,         \* utils.get_file_map(dst): files of the registration tree
    file_trees,       \* the file trees the add-ons of the job report
    stat_tree,        \* the stat results built from them, and the job's total
                      \* disk usage (NoSize until archive_node has summed it)
    payload_args,     \* arguments of a call of make_waterbutler_payload
    payload,          \* what the call returned (<<>> before it has)
    archive_status,   \* dst.archive_status
    sanction,         \* state of dst.root.sanction
    deleted,          \* dst.root.delete_registration_tree has run
    mails,            \* mail templates sent
    started,          \* archive(job_pk) has been enqueued
    stat_task,        \* target name -> state of its stat_addon task
    stat_results,     \* target name -> what its stat_addon task returned
    node_task,        \* the archive_node task: pc, stat_results, loop index
    addon_task,       \* target name -> state of its archive_addon task
    copy_requests,    \* the make_copy_request tasks and their requests
    success_queue,    \* archive_success tasks scheduled and not yet run
    hist              \* what has happened so far (counters, for the properties)

vars ==
    <<target_addons, status, sent, no_limit, prereg, registered_meta, file_map,
      file_trees, stat_tree, payload_args, payload, archive_status, sanction,
      deleted, mails, started, stat_task, stat_results, node_task, addon_task,
      copy_requests, success_queue, hist>>

jobVars == <<target_addons, status, sent>>
failVars == <<archive_status, sanction, deleted, mails>>
regVars == <<prereg, registered_meta, file_map>>
treeVars == <<file_trees, stat_tree>>
payVars == <<payload_args, payload>>

Targets == DOMAIN target_addons

\* The targets of the job in the order of job.target_addons.
TargetSeq == SelectSeq(TargetOrder, LAMBDA t : t \in Targets)

\* ------------------------------------------------ ArchiveJob (model.py)

\* ArchiveJob.update_target, first half: the named target takes the status.
SetTarget(ts, name, st) == [ts EXCEPT ![name] = st]

\* Mutant of DerivedStatus: the status is recomputed from the targets each
\* time, whatever it was.
DerivedStatus_Recomputed(cur, ts) ==
    IF \E t \in DOMAIN ts : ts[t] = ARCHIVER_INITIATED THEN cur
    ELSE IF \A t \in DOMAIN ts : ts[t] = ARCHIVER_SUCCESS THEN ARCHIVER_SUCCESS
    ELSE ARCHIVER_FAILURE

\* ArchiveJob.update_target, second half: the aggregate status of the job,
\* derived from the statuses of its targets. It leaves pending only when no
\* target is pending, for success when every target succeeded and for failure
\* otherwise, and both are terminal.
DerivedStatus(cur, ts) ==
    IF cur # ARCHIVER_INITIATED THEN cur
    ELSE IF \E t \in DOMAIN ts : ts[t] = ARCHIVER_INITIATED THEN cur
    ELSE IF \A t \in DOMAIN ts : ts[t] = ARCHIVER_SUCCESS THEN ARCHIVER_SUCCESS
    ELSE ARCHIVER_FAILURE

\* AggregateStatResult.disk_usage: the sum over the children.
RECURSIVE DiskUsage(_)
DiskUsage(results) ==
    IF results = <<>> THEN 0
    ELSE Head(results).disk_usage + DiskUsage(Tail(results))

\* ------------------------------------------------- listeners (listeners.py)

\* The listener of project_signals.archive_callback: once every target has
\* succeeded it schedules Finalization, unless the job was already sent.
\* Gives the number of archive_success tasks queued afterwards.
ArchiveCallbackListener(st, snt, queued) ==
    IF st = ARCHIVER_SUCCESS /\ ~snt THEN queued + 1 ELSE queued

\* ---------------------------------------------------- utils.py, tasks.py

\* handle_archive_fail: the mail templates sent for a failure reason.
FailMails(reason) ==
    IF reason = ARCHIVER_NETWORK_ERROR
        THEN {"ARCHIVE_COPY_ERROR_DESK", "ARCHIVE_COPY_ERROR_USER"}
    ELSE IF reason = ARCHIVER_SIZE_EXCEEDED
        THEN {"ARCHIVE_SIZE_EXCEEDED_DESK", "ARCHIVE_SIZE_EXCEEDED_USER"}
    ELSE {"ARCHIVE_UNCAUGHT_ERROR_DESK", "ARCHIVE_UNCAUGHT_ERROR_USER"}

\* handle_archive_fail: mails, then the sanction is forcibly rejected and the
\* registration tree deleted.
HandleArchiveFail(reason) ==
    /\ mails' = mails \cup FailMails(reason)
    /\ sanction' = "rejected"
    /\ deleted' = TRUE

\* The listener of archiver_signals.archive_fail: cleanup for the kind that
\* on_failure persisted on the destination.
ArchiveFailListener(reason) == HandleArchiveFail(reason)

\* on_failure, lines 85-99: the status persisted for an exception.
FailureKind(exc) ==
    IF exc = "ArchiverSizeExceeded" THEN ARCHIVER_SIZE_EXCEEDED
    ELSE IF exc = "HTTPError" THEN ARCHIVER_NETWORK_ERROR
    ELSE IF exc = "ArchivedFileNotFound" THEN ARCHIVER_FILE_NOT_FOUND
    ELSE ARCHIVER_UNCAUGHT_ERROR

\* on_failure, lines 71-72: the hook first attaches to a remote debugger at
\* localhost:54735. The outcomes a worker can see: the debug server answers
\* and the hook goes on (TRUE), or pydevd is missing or unreachable and the
\* hook ends there with that error (FALSE).
DebuggerOutcomes == BOOLEAN

\* Mutant of AlreadyCaptured: the hook goes on whatever the job's status.
AlreadyCaptured_Never(st) == FALSE

\* on_failure, lines 80-82: the job is already failed and the hook returns.
AlreadyCaptured(st) == st = ARCHIVER_FAILURE

\* ArchiverTask.on_failure for a task that ended with exc, the job's status
\* being st when the hook loads the job; h is the history so far.
OnFailure(exc, st, h) ==
    \E attached \in DebuggerOutcomes :
        IF ~attached \/ AlreadyCaptured(st)
            THEN /\ UNCHANGED failVars
                 /\ hist' = [h EXCEPT !.failures = @ \cup {exc}]
            ELSE /\ archive_status' = FailureKind(exc)
                 /\ ArchiveFailListener(FailureKind(exc))
                 /\ hist' = [h EXCEPT !.failures = @ \cup {exc},
                                      !.fail_signals = @ + 1]

\* stat_addon and archive_addon, lines 115-118 and 193-195: every short name
\* holding 'dataverse' names the dataverse add-on.
AddonName(addon_short_name) ==
    IF addon_short_name \in {"dataverse-draft", "dataverse-published"}
        THEN "dataverse"
        ELSE addon_short_name

\* stat_addon, line 119: the revision whose file tree is measured.
StatVersion(addon_short_name) ==
    IF AddonName(addon_short_name) # "dataverse" THEN "none"
    ELSE IF addon_short_name = "dataverse-draft" THEN "latest"
    ELSE "latest-published"

\* Mutant of CopyPayloads: the two-request branch is taken for every add-on.
CopyPayloads_AlwaysTwo(addon_short_name) ==
    {[provider |-> AddonName(addon_short_name), rename |-> " (published)",
      revision |-> "latest-published"],
     [provider |-> AddonName(addon_short_name), rename |-> " (draft)",
      revision |-> "latest"]}

\* archive_addon, lines 204-217: the copy requests one archive_addon task
\* hands to make_copy_request: provider, suffix of the destination folder
\* name, source revision.
CopyPayloads(addon_short_name) ==
    IF AddonName(addon_short_name) = "dataverse"
        THEN {[provider |-> "dataverse", rename |-> " (published)",
               revision |-> "latest-published"],
              [provider |-> "dataverse", rename |-> " (draft)",
               revision |-> "latest"]}
        ELSE {[provider |-> addon_short_name, rename |-> "", revision |-> "none"]}

\* Mutant of SizeExceeded: the no-limit marker of the initiator is not looked at.
SizeExceeded_MarkerIgnored(noLimit, usage) == usage > MAX_ARCHIVE_SIZE

\* Mutant of SizeExceeded: a job exactly at the limit is refused as well.
SizeExceeded_AtLimit(noLimit, usage) == ~noLimit /\ usage >= MAX_ARCHIVE_SIZE

\* archive_node, line 243: the Size Gate.
SizeExceeded(noLimit, usage) == ~noLimit /\ usage > MAX_ARCHIVE_SIZE

\* How the disk usage the Size Gate compared stood to settings.MAX_ARCHIVE_SIZE
\* (kept in hist for the properties).
GateUsage(usage) ==
    IF usage < MAX_ARCHIVE_SIZE THEN "below"
    ELSE IF usage = MAX_ARCHIVE_SIZE THEN "equal" ELSE "above"

\* Mutant of GateJobStatus: the job without targets is left pending.
GateJobStatus_Unchanged(cur, results) == cur

\* archive_node, lines 246-248: a job without targets is successful at once.
GateJobStatus(cur, results) ==
    IF results = <<>> THEN ARCHIVER_SUCCESS ELSE cur

\* Mutant of NeedsCopy: every target gets a Copy task.
NeedsCopy_Always(num_files) == num_files >= 0

\* archive_node, line 250: a target with files gets a Copy task.
NeedsCopy(num_files) == num_files # 0

\* Mutant of LoopTargets: marking a target rebuilds the target list, the
\* others starting over as pending.
LoopTargets_Rebuilt(ts, name, num_files) ==
    IF NeedsCopy(num_files) THEN ts
    ELSE [t \in DOMAIN ts |->
             IF t = name THEN ARCHIVER_SUCCESS ELSE ARCHIVER_INITIATED]

\* archive_node, lines 250-251: the targets after the loop body has handled
\* the result of target name.
LoopTargets(ts, name, num_files) ==
    IF NeedsCopy(num_files) THEN ts ELSE SetTarget(ts, name, ARCHIVER_SUCCESS)

\* Mutant of LoopDone: the loop is left one result early.
LoopDone_Early(i, results) == i >= Len(results)

\* archive_node, lines 249-258: the loop has gone through every result, and
\* line 258 is reached.
LoopDone(i, results) == i > Len(results)

\* Mutant of StatErrorTargets: every target of the job is marked.
StatErrorTargets_AllTargets(ts, name) ==
    [t \in DOMAIN ts |-> ARCHIVER_NETWORK_ERROR]

\* Mutant of StatErrorTargets: the target is marked with the generic failure.
StatErrorTargets_Generic(ts, name) == SetTarget(ts, name, ARCHIVER_FAILURE)

\* stat_addon, lines 127-131: the targets after the file-tree query of target
\* name has raised HTTPError.
StatErrorTargets(ts, name) == SetTarget(ts, name, ARCHIVER_NETWORK_ERROR)

\* Mutant of ChordReady: archive_node is applied as soon as one member of
\* the group has returned.
ChordReady_AnyReturned(tasks) ==
    DOMAIN tasks = {} \/ \E t \in DOMAIN tasks : tasks[t] = "done"

\* archive, lines 274-287: the chord. archive_node is applied to the results
\* of the stat_addon group once every task of the group has returned one; a
\* member that raised leaves the chord unfinished for good.
ChordReady(tasks) == \A t \in DOMAIN tasks : tasks[t] = "done"

\* ------------------------------------- archive_success: file references

\* The nodes of the registration tree (the destination and a child) and the
\* node each was registered from (Node.registered_from, read at line 295).
RegistrationNodes == {"r1", "r2"}
RegisteredFrom(node_id) == IF node_id = "r1" THEN "n1" ELSE "n2"

\* The files utils.get_file_map can yield: content hash, file metadata (name,
\* path) and id of the owning node.
Files ==
    {[sha256 |-> h, name |-> nm, path |-> <<"/", nm>>, node_id |-> nd] :
        h \in {"h1", "h2"}, nm \in {"a", "b"}, nd \in RegistrationNodes}

\* The sequences over S of length at most n.
SeqsUpTo(S, n) == UNION {[1..k -> S] : k \in 0..n}

\* utils.get_file_map(dst): the files of the destination and its descendants,
\* in the order the generator yields them.
FileMaps == SeqsUpTo(Files, MaxMapFiles)

\* The view URL a reference has before archiving: the file on the node the
\* registration was made from.
OrigViewUrl(ref) ==
    <<"/project/", ref.nodeId, "/files/osfstorage/", ref.selectedFileName, "/">>

\* The 'extra' of an answer of the schema: a file reference when sha256 is
\* set. An entry of a question whose value is a dict (lines 336-350) and a
\* question that is itself the reference (lines 351-356) are handled alike.
Refs ==
    {[sha256 |-> h, selectedFileName |-> nm, nodeId |-> "n1",
      viewUrl |-> <<"/project/", "n1", "/files/osfstorage/", nm, "/">>] :
        h \in {"", "h1"}, nm \in {"a", "b"}}

\* dst.registered_meta[prereg_schema._id], as the list of its answers.
Metas == SeqsUpTo(Refs, MaxRefs)

\* str.lstrip('/') on a path given as its characters.
RECURSIVE LStrip(_)
LStrip(path) ==
    IF path # <<>> /\ Head(path) = "/" THEN LStrip(Tail(path)) ELSE path

\* VIEW_FILE_URL_TEMPLATE.format(node_id=node_id, path=path), line 300.
VIEW_FILE_URL_TEMPLATE(node_id, path) ==
    <<"/project/", node_id, "/files/osfstorage/">> \o path \o <<"/">>

\* find_registration_file, lines 294-297: the place in the file map of the
\* first file with the hash, the originating node and the name of the
\* reference; 0 when there is none, where line 298 raises.
FindRegistrationFile(ref, fm) ==
    LET M == {i \in 1..Len(fm) :
                /\ fm[i].sha256 = ref.sha256
                /\ RegisteredFrom(fm[i].node_id) = ref.nodeId
                /\ ref.selectedFileName = fm[i].name}
    IN IF M = {} THEN 0 ELSE CHOOSE i \in M : \A j \in M : i <= j

\* Lines 339 and 352: the answer carries a sha256.
HasSha256(ref) == ref.sha256 # ""

\* archive_success, lines 340-349 and 353-356: the reference with its view
\* URL set to the file found.
RewriteRef(ref, fm) ==
    IF ~HasSha256(ref) THEN ref
    ELSE LET f == fm[FindRegistrationFile(ref, fm)] IN
         [ref EXCEPT !.viewUrl = VIEW_FILE_URL_TEMPLATE(f.node_id, LStrip(f.path))]

\* archive_success, lines 333-360: the metadata saved on the registration.
RewriteMeta(schema, meta, fm) ==
    IF schema THEN [k \in 1..Len(meta) |-> RewriteRef(meta[k], fm)] ELSE meta

\* find_registration_file raises ArchivedFileNotFound for some reference of
\* the registration (line 298).
FileNotFound ==
    /\ prereg
    /\ \E k \in 1..Len(registered_meta) :
          /\ HasSha256(registered_meta[k])
          /\ FindRegistrationFile(registered_meta[k], file_map) = 0

\* The registrations the jobs of the pipeline are run with: one without file
\* reference, one whose reference is found, one whose reference is not.
PipelineRegistrations ==
    LET ref == [sha256 |-> "h1", selectedFileName |-> "a", nodeId |-> "n1",
                viewUrl |-> <<"/project/", "n1", "/files/osfstorage/", "a", "/">>]
        file == [sha256 |-> "h1", name |-> "a", path |-> <<"/", "a">>,
                 node_id |-> "r1"]
    IN {<<TRUE, <<>>, <<>>>>, <<TRUE, <<ref>>, <<file>>>>, <<TRUE, <<ref>>, <<>>>>}

\* --------------------------------------------- stat_addon: file trees

\* fileobj_metadata.get('size') of an entry that has no size.
NoSize == -1

\* A file of an add-on's file tree, and a folder with its children; the
\* folders of the model carry a size of their own.
FileObj(size) == [kind |-> "file", size |-> size, children |-> <<>>]
FolderObj(children) == [kind |-> "folder", size |-> MaxSize, children |-> children]

\* The file trees of k nodes, and the lists of file trees of n nodes in all.
RECURSIVE TreesOfSize(_), ForestsOfSize(_)
TreesOfSize(k) ==
    IF k = 1
        THEN {FileObj(sz) : sz \in {NoSize} \cup 1..MaxSize} \cup {FolderObj(<<>>)}
        ELSE {FolderObj(f) : f \in ForestsOfSize(k - 1)}

ForestsOfSize(n) ==
    IF n = 0 THEN {<<>>}
    ELSE UNION {{<<t>> \o f : t \in TreesOfSize(k), f \in ForestsOfSize(n - k)} :
                   k \in 1..n}

\* What _get_file_tree gives for the add-ons of a job, one tree per target.
FileTrees == UNION {ForestsOfSize(n) : n \in 0..MaxNodes}

\* StatResult and AggregateStatResult as the tasks build them. usage is the
\* disk_usage a StatResult is built with; an AggregateStatResult stores none.
StatResult(disk_usage) ==
    [kind |-> "StatResult", usage |-> disk_usage, targets |-> <<>>]
AggregateStatResult(targets) ==
    [kind |-> "AggregateStatResult", usage |-> 0, targets |-> targets]

\* 'disk_usage or 0', line 122 of utils.py.
OrZero(size) == IF size = NoSize THEN 0 ELSE size

RECURSIVE aggregate_file_tree_metadata(_)

\* Mutant of aggregate_file_tree_metadata: a folder is not descended into
\* beyond its first child.
aggregate_file_tree_metadata_FirstChild(fileobj_metadata) ==
    IF fileobj_metadata.kind = "file"
        THEN StatResult(OrZero(fileobj_metadata.size))
        ELSE AggregateStatResult(
                 [i \in 1..(IF fileobj_metadata.children = <<>> THEN 0 ELSE 1) |->
                     aggregate_file_tree_metadata(fileobj_metadata.children[i])])

\* Mutant of aggregate_file_tree_metadata: a folder without children is
\* measured like a file, with the size the folder itself carries.
aggregate_file_tree_metadata_EmptyFolderAsFile(fileobj_metadata) ==
    IF fileobj_metadata.kind = "file" \/ fileobj_metadata.children = <<>>
        THEN StatResult(OrZero(fileobj_metadata.size))
        ELSE AggregateStatResult(
                 [i \in 1..Len(fileobj_metadata.children) |->
                     aggregate_file_tree_metadata(fileobj_metadata.children[i])])

\* utils.aggregate_file_tree_metadata, lines 119-132.
aggregate_file_tree_metadata(fileobj_metadata) ==
    IF fileobj_metadata.kind = "file"
        THEN StatResult(OrZero(fileobj_metadata.size))
        ELSE AggregateStatResult(
                 [i \in 1..Len(fileobj_metadata.children) |->
                     aggregate_file_tree_metadata(fileobj_metadata.children[i])])

\* AggregateStatResult.disk_usage and StatResult.disk_usage: what the result
\* was built with, and for an aggregate the sum over its targets.
RECURSIVE TreeDiskUsage(_), SumDiskUsage(_)
TreeDiskUsage(result) ==
    IF result.kind = "StatResult" THEN result.usage
    ELSE SumDiskUsage(result.targets)

SumDiskUsage(targets) ==
    IF targets = <<>> THEN 0
    ELSE TreeDiskUsage(Head(targets)) + SumDiskUsage(Tail(targets))

\* AggregateStatResult.num_files and StatResult.num_files: one for a
\* StatResult, and for an aggregate the sum over its targets.
RECURSIVE TreeNumFiles(_), SumNumFiles(_)
TreeNumFiles(result) ==
    IF result.kind = "StatResult" THEN 1
    ELSE SumNumFiles(result.targets)

SumNumFiles(targets) ==
    IF targets = <<>> THEN 0
    ELSE TreeNumFiles(Head(targets)) + SumNumFiles(Tail(targets))

\* stat_addon, lines 133-138: the result returned for one add-on.
StatAddonResult(file_tree) ==
    AggregateStatResult(<<aggregate_file_tree_metadata(file_tree)>>)

\* ------------------------------------------ make_waterbutler_payload

\* settings.ARCHIVE_PROVIDER, the provider every copy is written to.
ARCHIVE_PROVIDER == "osfstorage"

\* revision=None, the default of make_waterbutler_payload.
NoRevision == "None"

\* The ids of the job's source and destination node (src._id, dst._id) and
\* the initiator's cookie.
SrcId == "src"
DstId == "dst"
Cookie == "cookie"

\* The folder names, as their characters: src_provider.archive_folder_name
\* with or without a suffix, which may hold slashes and dashes.
FolderNames == SeqsUpTo({"/", "-", "x"}, MaxNameLen)

\* The calls archive_addon can make: add-on name, folder name, revision (the
\* default or one of the two dataverse revisions).
PayloadArgs ==
    [addon_short_name : {"box", "osfstorage", "dataverse"},
     rename : FolderNames,
     revision : {NoRevision, "latest", "latest-published"}]

NoPayloadArgs ==
    [addon_short_name |-> "osfstorage", rename |-> <<>>, revision |-> NoRevision]

RECURSIVE Replace(_)

\* Mutant of Replace: only the first slash is replaced.
Replace_FirstOnly(str) ==
    IF str = <<>> THEN <<>>
    ELSE IF Head(str) = "/" THEN <<"-">> \o Tail(str)
    ELSE <<Head(str)>> \o Replace(Tail(str))

\* rename.replace('/', '-'), line 175.
Replace(str) ==
    IF str = <<>> THEN <<>>
    ELSE <<IF Head(str) = "/" THEN "-" ELSE Head(str)>> \o Replace(Tail(str))

\* make_waterbutler_payload(src, dst, addon_short_name, rename, cookie,
\* revision), lines 160-178.
make_waterbutler_payload(addon_short_name, rename, revision) ==
    LET source == [cookie |-> Cookie, nid |-> SrcId,
                   provider |-> addon_short_name, path |-> "/"]
    IN [source |-> IF revision # NoRevision
                       THEN [cookie |-> source.cookie, nid |-> source.nid,
                             provider |-> source.provider, path |-> source.path,
                             revision |-> revision]
                       ELSE source,
        destination |-> [cookie |-> Cookie, nid |-> DstId,
                         provider |-> ARCHIVE_PROVIDER, path |-> "/"],
        rename |-> Replace(rename)]

\* project_signals.archive_callback.send(dst), with the job as it is then.
SendArchiveCallback(st, h) ==
    /\ success_queue' = ArchiveCallbackListener(st, sent, success_queue)
    /\ hist' = [h EXCEPT !.callbacks = @ + 1,
                         !.success_scheduled =
                             @ + (success_queue' - success_queue)]

\* ------------------------------------------------------------------ Init

Init ==
    /\ \E shape \in JobShapes :
           target_addons = [t \in shape |-> ARCHIVER_INITIATED]
    /\ status = ARCHIVER_INITIATED
    /\ sent = FALSE
    /\ no_limit \in BOOLEAN
    /\ \E reg \in PipelineRegistrations :
           prereg = reg[1] /\ registered_meta = reg[2] /\ file_map = reg[3]
    /\ file_trees = <<>>
    /\ stat_tree = [results |-> <<>>, total |-> NoSize]
    /\ payload_args = NoPayloadArgs
    /\ payload = <<>>
    /\ archive_status = "none"
    /\ sanction = "pending"
    /\ deleted = FALSE
    /\ mails = {}
    /\ started = FALSE
    /\ stat_task = [t \in Targets |-> "idle"]
    /\ stat_results = [t \in Targets |-> NoResult]
    /\ node_task = [pc |-> "waiting", results |-> <<>>, i |-> 1]
    /\ addon_task = [t \in Targets |-> "none"]
    /\ copy_requests = {}
    /\ success_queue = 0
    /\ hist = [failures |-> {}, fail_signals |-> 0, callbacks |-> 0, asked |-> 0,
               success_scheduled |-> 0, success_runs |-> 0,
               addon_scheduled |-> [t \in Targets |-> 0],
               node_signals |-> 0, gate |-> "none"]

\* --------------------------------------------------------------- actions

\* archive(job_pk), enqueued by the registration: one stat_addon per target.
Archive ==
    /\ ~started
    /\ started' = TRUE
    /\ stat_task' = [t \in Targets |-> "queued"]
    /\ UNCHANGED <<jobVars, failVars, no_limit, regVars, treeVars, payVars, stat_results, node_task,
                   addon_task, copy_requests, success_queue, hist>>

\* stat_addon returns the AggregateStatResult of the add-on's file tree.
StatAddon(t) ==
    /\ stat_task[t] = "queued"
    /\ \E o \in StatOutcomes : stat_results' = [stat_results EXCEPT ![t] = o]
    /\ stat_task' = [stat_task EXCEPT ![t] = "done"]
    /\ UNCHANGED <<jobVars, failVars, no_limit, regVars, treeVars, payVars, started, node_task,
                   addon_task, copy_requests, success_queue, hist>>

\* stat_addon, lines 126-132: the file-tree query raises HTTPError; the target
\* is marked, the error raised again and on_failure runs.
StatAddonHTTPError(t) ==
    /\ stat_task[t] = "queued"
    /\ stat_task' = [stat_task EXCEPT ![t] = "failed"]
    /\ target_addons' = StatErrorTargets(target_addons, t)
    /\ status' = DerivedStatus(status, target_addons')
    /\ OnFailure("HTTPError", status', hist)
    /\ UNCHANGED <<sent, no_limit, regVars, treeVars, payVars, started, stat_results, node_task,
                   addon_task, copy_requests, success_queue>>

\* The results the chord hands to archive_node, in the order of the group.
ChordResults == [i \in 1..Len(TargetSeq) |->
                    [target_name |-> TargetSeq[i],
                     num_files |-> stat_results[TargetSeq[i]].num_files,
                     disk_usage |-> stat_results[TargetSeq[i]].disk_usage]]

\* What the loop of archive_node still reads of a result.
LoopResults(results) ==
    [i \in 1..Len(results) |->
        [target_name |-> results[i].target_name, num_files |-> results[i].num_files]]

\* archive_node, lines 231-248: the Size Gate lets the job pass.
ArchiveNodeGate ==
    /\ started /\ node_task.pc = "waiting" /\ ChordReady(stat_task)
    /\ ~SizeExceeded(no_limit, DiskUsage(ChordResults))
    /\ status' = GateJobStatus(status, ChordResults)
    /\ node_task' = [pc |-> "loop", results |-> LoopResults(ChordResults), i |-> 1]
    /\ stat_results' = [t \in Targets |-> NoResult]
    /\ hist' = [hist EXCEPT !.gate = GateUsage(DiskUsage(ChordResults))]
    /\ UNCHANGED <<target_addons, sent, failVars, no_limit, regVars, treeVars, payVars, started,
                   stat_task, addon_task, copy_requests, success_queue>>

\* archive_node, lines 243-244: the Size Gate raises ArchiverSizeExceeded.
ArchiveNodeSizeExceeded ==
    /\ started /\ node_task.pc = "waiting" /\ ChordReady(stat_task)
    /\ SizeExceeded(no_limit, DiskUsage(ChordResults))
    /\ node_task' = [pc |-> "failed", results |-> LoopResults(ChordResults), i |-> 1]
    /\ stat_results' = [t \in Targets |-> NoResult]
    /\ OnFailure("ArchiverSizeExceeded", status,
                 [hist EXCEPT !.gate = GateUsage(DiskUsage(ChordResults))])
    /\ UNCHANGED <<jobVars, no_limit, regVars, treeVars, payVars, started, stat_task, addon_task,
                   copy_requests, success_queue>>

\* archive_node, lines 249-257: one turn of the loop over the results.
ArchiveNodeLoop ==
    /\ node_task.pc = "loop" /\ ~LoopDone(node_task.i, node_task.results)
    /\ LET r == node_task.results[node_task.i] IN
        /\ target_addons' = LoopTargets(target_addons, r.target_name, r.num_files)
        /\ status' = IF NeedsCopy(r.num_files) THEN status
                     ELSE DerivedStatus(status, target_addons')
        /\ addon_task' = IF NeedsCopy(r.num_files)
                         THEN [addon_task EXCEPT ![r.target_name] = "queued"]
                         ELSE addon_task
        /\ hist' = IF NeedsCopy(r.num_files)
                   THEN [hist EXCEPT !.addon_scheduled[r.target_name] = @ + 1]
                   ELSE hist
    /\ node_task' = [node_task EXCEPT !.i = @ + 1]
    /\ UNCHANGED <<sent, failVars, no_limit, regVars, treeVars, payVars, started, stat_task,
                   stat_results, copy_requests, success_queue>>

\* archive_node, line 258: the completion signal.
ArchiveNodeSignal ==
    /\ node_task.pc = "loop" /\ LoopDone(node_task.i, node_task.results)
    /\ node_task' = [node_task EXCEPT !.pc = "done"]
    /\ SendArchiveCallback(status, [hist EXCEPT !.node_signals = @ + 1])
    /\ UNCHANGED <<jobVars, failVars, no_limit, regVars, treeVars, payVars, started, stat_task,
                   stat_results, addon_task, copy_requests>>

\* archive_addon: the copy requests of one target are handed to
\* make_copy_request.
ArchiveAddon(t) ==
    /\ addon_task[t] = "queued"
    /\ addon_task' = [addon_task EXCEPT ![t] = "done"]
    /\ copy_requests' = copy_requests \cup
          {[task |-> t, provider |-> p.provider, rename |-> p.rename,
            revision |-> p.revision, state |-> "queued"] : p \in CopyPayloads(t)}
    /\ UNCHANGED <<jobVars, failVars, no_limit, regVars, treeVars, payVars, started, stat_task,
                   stat_results, node_task, success_queue, hist>>

SetState(r, st) == [r EXCEPT !.state = st]

\* make_copy_request, line 157: the request is posted; the answer of the
\* service (accepted, or refused with not found / server error) is dropped.
MakeCopyRequest(r) ==
    /\ r \in copy_requests /\ r.state = "queued"
    /\ \E answer \in {"posted", "refused"} :
          copy_requests' = (copy_requests \ {r}) \cup {SetState(r, answer)}
    /\ UNCHANGED <<jobVars, failVars, no_limit, regVars, treeVars, payVars, started, stat_task,
                   stat_results, node_task, addon_task, success_queue, hist>>

\* make_copy_request, line 157: the service cannot be reached and
\* requests.post raises; on_failure runs.
MakeCopyRequestRaises(r) ==
    /\ r \in copy_requests /\ r.state = "queued"
    /\ copy_requests' = (copy_requests \ {r}) \cup {SetState(r, "raised")}
    /\ OnFailure("Other", status, hist)
    /\ UNCHANGED <<jobVars, no_limit, regVars, treeVars, payVars, started, stat_task,
                   stat_results, node_task, addon_task, success_queue>>

\* The completion hook of the file-copy service for an accepted request: the
\* target of the Copy task is marked with the outcome and the completion
\* signal sent.
CopyCompleted(r) ==
    /\ r \in copy_requests /\ r.state = "posted"
    /\ copy_requests' = (copy_requests \ {r}) \cup {SetState(r, "reported")}
    /\ \E outcome \in {ARCHIVER_SUCCESS, ARCHIVER_FAILURE} :
          target_addons' = SetTarget(target_addons, r.task, outcome)
    /\ status' = DerivedStatus(status, target_addons')
    /\ SendArchiveCallback(status', hist)
    /\ UNCHANGED <<sent, failVars, no_limit, regVars, treeVars, payVars, started, stat_task,
                   stat_results, node_task, addon_task>>

\* Mutant of MarkSent: the flag is left as it was.
MarkSent_Skipped(snt) == snt

\* archive_success, lines 362-364: job.sent after 'job.sent = True; job.save()'.
MarkSent(snt) == TRUE

\* archive_success, lines 321-365: every file reference is found in the
\* registration and rewritten, the metadata saved; the job is marked sent and
\* the sanction asked.
ArchiveSuccess ==
    /\ success_queue > 0 /\ ~FileNotFound
    /\ success_queue' = success_queue - 1
    /\ registered_meta' = RewriteMeta(prereg, registered_meta, file_map)
    /\ sent' = MarkSent(sent)
    /\ hist' = [hist EXCEPT !.asked = @ + 1, !.success_runs = @ + 1]
    /\ UNCHANGED <<target_addons, status, failVars, no_limit, prereg, file_map,
                   treeVars, payVars, started, stat_task, stat_results, node_task,
                   addon_task, copy_requests>>

\* archive_success, lines 340, 353 and 298: find_registration_file raises
\* ArchivedFileNotFound before line 360 saves anything; on_failure runs.
ArchiveSuccessFileNotFound ==
    /\ success_queue > 0 /\ FileNotFound
    /\ success_queue' = success_queue - 1
    /\ OnFailure("ArchivedFileNotFound", status,
                 [hist EXCEPT !.success_runs = @ + 1])
    /\ UNCHANGED <<jobVars, no_limit, regVars, treeVars, payVars, started, stat_task,
                   stat_results, node_task, addon_task, copy_requests>>

Next ==
    \/ Archive
    \/ \E t \in Targets : StatAddon(t)
    \/ \E t \in Targets : StatAddonHTTPError(t)
    \/ ArchiveNodeGate
    \/ ArchiveNodeSizeExceeded
    \/ ArchiveNodeLoop
    \/ ArchiveNodeSignal
    \/ \E t \in Targets : ArchiveAddon(t)
    \/ \E r \in copy_requests : MakeCopyRequest(r)
    \/ \E r \in copy_requests : MakeCopyRequestRaises(r)
    \/ \E r \in copy_requests : CopyCompleted(r)
    \/ ArchiveSuccess
    \/ ArchiveSuccessFileNotFound

Spec == Init /\ [][Next]_vars

\* ------------------------------------ archive_success on any registration

\* Finalization alone: the job without targets that archive_node has just
\* signalled complete, over every registration metadata and file map within
\* the bounds.
InitFinal ==
    /\ target_addons = [t \in {} |-> ARCHIVER_INITIATED]
    /\ status = ARCHIVER_SUCCESS
    /\ sent = FALSE
    /\ no_limit = FALSE
    /\ prereg \in BOOLEAN
    /\ registered_meta \in Metas
    /\ file_map \in FileMaps
    /\ file_trees = <<>>
    /\ stat_tree = [results |-> <<>>, total |-> NoSize]
    /\ payload_args = NoPayloadArgs
    /\ payload = <<>>
    /\ archive_status = "none"
    /\ sanction = "pending"
    /\ deleted = FALSE
    /\ mails = {}
    /\ started = TRUE
    /\ stat_task = [t \in {} |-> "idle"]
    /\ stat_results = [t \in {} |-> NoResult]
    /\ node_task = [pc |-> "done", results |-> <<>>, i |-> 1]
    /\ addon_task = [t \in {} |-> "none"]
    /\ copy_requests = {}
    /\ success_queue = 1
    /\ hist = [failures |-> {}, fail_signals |-> 0, callbacks |-> 1, asked |-> 0,
               success_scheduled |-> 1, success_runs |-> 0,
               addon_scheduled |-> [t \in {} |-> 0],
               node_signals |-> 1, gate |-> "below"]

NextFinal ==
    \/ ArchiveSuccess
    \/ ArchiveSuccessFileNotFound

SpecFinal == InitFinal /\ [][NextFinal]_vars

\* --------------------------------------------- statting of file trees

\* The stat stage alone, over every list of file trees within the bounds:
\* the job has one target per tree.
InitStat ==
    /\ file_trees \in FileTrees
    /\ stat_tree = [results |-> <<>>, total |-> NoSize]
    /\ payload_args = NoPayloadArgs
    /\ payload = <<>>
    /\ target_addons = [t \in {} |-> ARCHIVER_INITIATED]
    /\ status = ARCHIVER_INITIATED
    /\ sent = FALSE
    /\ no_limit = FALSE
    /\ prereg = TRUE /\ registered_meta = <<>> /\ file_map = <<>>
    /\ archive_status = "none"
    /\ sanction = "pending"
    /\ deleted = FALSE
    /\ mails = {}
    /\ started = TRUE
    /\ stat_task = [t \in {} |-> "idle"]
    /\ stat_results = [t \in {} |-> NoResult]
    /\ node_task = [pc |-> "waiting", results |-> <<>>, i |-> 1]
    /\ addon_task = [t \in {} |-> "none"]
    /\ copy_requests = {}
    /\ success_queue = 0
    /\ hist = [failures |-> {}, fail_signals |-> 0, callbacks |-> 0, asked |-> 0,
               success_scheduled |-> 0, success_runs |-> 0,
               addon_scheduled |-> [t \in {} |-> 0],
               node_signals |-> 0, gate |-> "none"]

\* stat_addon, lines 124-138, for the next add-on of the job.
StatTree ==
    /\ Len(stat_tree.results) < Len(file_trees)
    /\ stat_tree' =
          [stat_tree EXCEPT !.results =
              Append(@, StatAddonResult(file_trees[Len(@) + 1]))]
    /\ UNCHANGED <<jobVars, failVars, no_limit, regVars, payVars, file_trees, started,
                   stat_task, stat_results, node_task, addon_task,
                   copy_requests, success_queue, hist>>

\* archive_node, lines 236-243: the results are gathered in one
\* AggregateStatResult, whose disk_usage the Size Gate compares.
StatTotal ==
    /\ Len(stat_tree.results) = Len(file_trees) /\ stat_tree.total = NoSize
    /\ stat_tree' =
          [stat_tree EXCEPT !.total =
              TreeDiskUsage(AggregateStatResult(stat_tree.results))]
    /\ UNCHANGED <<jobVars, failVars, no_limit, regVars, payVars, file_trees, started,
                   stat_task, stat_results, node_task, addon_task,
                   copy_requests, success_queue, hist>>

NextStat ==
    \/ StatTree
    \/ StatTotal

SpecStat == InitStat /\ [][NextStat]_vars

\* ------------------------------------------- building of copy payloads

\* make_waterbutler_payload alone, over every call within the bounds.
InitPayload ==
    /\ payload_args \in PayloadArgs
    /\ payload = <<>>
    /\ file_trees = <<>>
    /\ stat_tree = [results |-> <<>>, total |-> NoSize]
    /\ target_addons = [t \in {} |-> ARCHIVER_INITIATED]
    /\ status = ARCHIVER_INITIATED
    /\ sent = FALSE
    /\ no_limit = FALSE
    /\ prereg = TRUE /\ registered_meta = <<>> /\ file_map = <<>>
    /\ archive_status = "none"
    /\ sanction = "pending"
    /\ deleted = FALSE
    /\ mails = {}
    /\ started = TRUE
    /\ stat_task = [t \in {} |-> "idle"]
    /\ stat_results = [t \in {} |-> NoResult]
    /\ node_task = [pc |-> "waiting", results |-> <<>>, i |-> 1]
    /\ addon_task = [t \in {} |-> "none"]
    /\ copy_requests = {}
    /\ success_queue = 0
    /\ hist = [failures |-> {}, fail_signals |-> 0, callbacks |-> 0, asked |-> 0,
               success_scheduled |-> 0, success_runs |-> 0,
               addon_scheduled |-> [t \in {} |-> 0],
               node_signals |-> 0, gate |-> "none"]

\* archive_addon, lines 211, 213 and 216: one call of make_waterbutler_payload.
MakePayload ==
    /\ payload = <<>>
    /\ payload' = <<make_waterbutler_payload(payload_args.addon_short_name,
                                             payload_args.rename,
                                             payload_args.revision)>>
    /\ UNCHANGED <<jobVars, failVars, no_limit, regVars, treeVars, payload_args,
                   started, stat_task, stat_results, node_task, addon_task,
                   copy_requests, success_queue, hist>>

NextPayload == MakePayload

SpecPayload == InitPayload /\ [][NextPayload]_vars

\* ------------------------------------------------------------ properties

\* The results archive_node has already gone through in its loop.
Handled == {node_task.results[i] : i \in 1..(node_task.i - 1)}

\* The copy requests issued by the archive_addon task of target t.
RequestsOf(t) == {r \in copy_requests : r.task = t}

\* C1: when the Size Gate raises size-exceeded (no no-limit marker, summed
\* disk usage above MAX_ARCHIVE_SIZE), the destination carries the status
\* size-exceeded and its registration tree is deleted.
C1_SizeExceededRollsBack ==
    node_task.pc = "failed" =>
        archive_status = ARCHIVER_SIZE_EXCEEDED /\ deleted

\* C2: archive_node never starts before every stat_addon task of the job has
\* returned.
C2_GateAfterAllStats ==
    node_task.pc # "waiting" => \A t \in Targets : stat_task[t] = "done"

C2_Witness ==
    node_task.pc # "waiting" /\ Cardinality(Targets) >= 2

\* C3: two runs of archive_success on one job ask the sanction exactly once.
C3_TwiceAsksOnce ==
    hist.success_runs >= 2 /\ ~FileNotFound => hist.asked = 1

\* C4: after a task of the job has failed, whatever the exception, the
\* sanction is rejected and the registration tree deleted.
C4_FailureRollsBack ==
    hist.failures # {} => sanction = "rejected" /\ deleted

\* C5: archive_node on a job without targets marks the job successful and
\* sends the completion signal, and no archive_addon or make_copy_request is
\* scheduled.
C5_EmptyJobSucceeds ==
    Targets = {} =>
        /\ node_task.pc # "failed"
        /\ node_task.pc \in {"loop", "done"} => status = ARCHIVER_SUCCESS
        /\ node_task.pc = "done" => hist.callbacks = 1
        /\ copy_requests = {}

C5_Witness ==
    Targets = {} /\ node_task.pc = "done"

\* C6: a target whose stat result reports zero files is marked success by
\* archive_node, and no archive_addon and no copy request is ever scheduled
\* for it, whatever the other targets report.
C6_ZeroFilesNoCopy ==
    \A r \in Handled :
        r.num_files = 0 =>
            /\ target_addons[r.target_name] = ARCHIVER_SUCCESS
            /\ hist.addon_scheduled[r.target_name] = 0
            /\ addon_task[r.target_name] = "none"
            /\ RequestsOf(r.target_name) = {}

C6_Witness ==
    /\ node_task.pc = "done"
    /\ \E r \in Handled : r.num_files = 0
    /\ \E r \in Handled : r.num_files > 0 /\ RequestsOf(r.target_name) # {}

\* C7: when the draft and the published file set of the dataverse add-on both
\* hold files, exactly two copy requests are issued for dataverse in all, one
\* to the ' (draft)' folder and one to the ' (published)' folder.
C7_DataverseTwoRequests ==
    (/\ node_task.pc = "done"
     /\ \A r \in Handled : r.num_files > 0
     /\ \A t \in {"dataverse-draft", "dataverse-published"} :
           t \in Targets /\ addon_task[t] = "done")
    => /\ Cardinality({r \in copy_requests : r.provider = "dataverse"}) = 2
       /\ \E r \in copy_requests : r.rename = " (draft)"
       /\ \E r \in copy_requests : r.rename = " (published)"

\* C8: once the loop of archive_node is over, every target with a file has had
\* exactly one archive_addon task scheduled, and the finished archive_addon of
\* an add-on that is not dataverse has issued exactly one copy request.
C8_OneCopyTaskPerTarget ==
    /\ node_task.pc = "done" =>
          \A r \in Handled :
              r.num_files > 0 => hist.addon_scheduled[r.target_name] = 1
    /\ \A t \in Targets :
          addon_task[t] = "done" /\ AddonName(t) # "dataverse"
              => Cardinality(RequestsOf(t)) = 1

C8_Witness ==
    /\ node_task.pc = "done"
    /\ \E r \in Handled :
          /\ r.num_files > 0 /\ AddonName(r.target_name) # "dataverse"
          /\ addon_task[r.target_name] = "done"

\* C9: no step of the pipeline takes a target that has left pending back to
\* pending.
C9_NeverBackToPending ==
    [][\A t \in Targets :
          target_addons[t] # ARCHIVER_INITIATED
              => target_addons'[t] # ARCHIVER_INITIATED]_vars

C9_Witness ==
    /\ \E t \in Targets : target_addons[t] = ARCHIVER_SUCCESS
    /\ \E r \in copy_requests : r.state = "reported"
    /\ hist.success_runs > 0

C14_NoLimitNeverExceeds ==
    no_limit =>
        /\ node_task.pc # "failed"
        /\ "ArchiverSizeExceeded" \notin hist.failures
        /\ node_task.pc = "done" =>
              \A k \in 1..Len(node_task.results) :
                  LET r == node_task.results[k] IN
                      IF r.num_files = 0
                          THEN target_addons[r.target_name] = ARCHIVER_SUCCESS
                          ELSE hist.addon_scheduled[r.target_name] = 1

C14_Witness ==
    /\ no_limit /\ hist.gate = "above" /\ node_task.pc = "done"
    /\ \E r \in Handled : r.num_files > 0

\* C15: the Size Gate raises size-exceeded only when the summed disk usage is
\* strictly greater than MAX_ARCHIVE_SIZE; a job exactly at the limit, or
\* below it, passes.
C15_StrictlyGreater ==
    /\ node_task.pc = "failed" => hist.gate = "above" /\ ~no_limit
    /\ hist.gate \in {"below", "equal"} => node_task.pc \in {"loop", "done"}
    /\ hist.gate = "above" /\ ~no_limit => node_task.pc = "failed"

C15_Witness ==
    ~no_limit /\ hist.gate = "equal" /\ node_task.pc = "done"

\* C17: archive_node sends the completion signal exactly once in a run that
\* passes the Size Gate, after every Copy task of the job has been scheduled
\* (at once when the job has no targets), and never when the Size Gate raises.
C17_SignalOnceAfterScheduling ==
    /\ hist.node_signals = IF node_task.pc = "done" THEN 1 ELSE 0
    /\ node_task.pc = "done" =>
          \A k \in 1..Len(node_task.results) :
              node_task.results[k].num_files > 0 =>
                  hist.addon_scheduled[node_task.results[k].target_name] = 1
    /\ node_task.pc = "failed" => hist.callbacks = 0

C17_Witness ==
    /\ node_task.pc = "done" /\ hist.node_signals = 1
    /\ Cardinality({r \in Handled : r.num_files > 0}) >= 2

\* C18: when the file-tree query of a stat_addon task raises HTTPError, the
\* task marks its target network-error and ends failed with that error, and
\* the other stat_addon tasks of the job are left as they are: one that has
\* not run yet can still run.
C18_StatErrorLeavesSiblings ==
    /\ [](\A u \in Targets : stat_task[u] = "queued" => ENABLED StatAddon(u))
    /\ [][\A t \in Targets :
             stat_task[t] = "queued" /\ stat_task'[t] = "failed" =>
                 /\ target_addons'[t] = ARCHIVER_NETWORK_ERROR
                 /\ "HTTPError" \in hist'.failures
                 /\ \A u \in Targets \ {t} : stat_task'[u] = stat_task[u]]_vars

C18_Witness ==
    \E t, u \in Targets :
        /\ stat_task[t] = "failed" /\ target_addons[t] = ARCHIVER_NETWORK_ERROR
        /\ stat_task[u] = "done"

\* C19: after the first failure of a task of the job, the destination's
\* archive status is one of size-exceeded, network-error, file-not-found and
\* uncaught-error, and the archive-failed signal has been sent.
C19_FailureStatusAndSignal ==
    hist.failures # {} =>
        /\ archive_status \in {ARCHIVER_SIZE_EXCEEDED, ARCHIVER_NETWORK_ERROR,
                               ARCHIVER_FILE_NOT_FOUND, ARCHIVER_UNCAUGHT_ERROR}
        /\ hist.fail_signals >= 1

\* C20: archive_success never starts before every copy request of the job has
\* been handed to the file-copy service: no Copy task is still waiting and no
\* request still unsent when it runs.
C20_FinalizationAfterRequests ==
    hist.success_runs >= 1 =>
        /\ \A t \in Targets : addon_task[t] # "queued"
        /\ \A r \in copy_requests : r.state # "queued"

\* C11: when a file reference with a sha256 matches no file of the
\* registration, archive_success marks it 'File not found' with an empty view
\* URL and still completes: the job is marked sent and the sanction asked.
C11_NoMatchIsNotFatal ==
    hist.success_runs >= 1 /\ FileNotFound =>
        /\ sent /\ hist.asked >= 1
        /\ \A k \in 1..Len(registered_meta) :
              LET ref == registered_meta[k] IN
                  HasSha256(ref) /\ FindRegistrationFile(ref, file_map) = 0 =>
                      ref.selectedFileName = "File not found" /\ ref.viewUrl = <<>>

\* C12: once archive_success has run on a registration of the schema, every
\* reference with a sha256 that a file of the registration tree matches on
\* hash, originating node and name has the view URL
\* '/project/{owning node}/files/osfstorage/{path without leading slash}/',
\* and every reference without sha256 the view URL it had.
C12_MatchRewritesViewUrl ==
    hist.success_runs >= 1 /\ prereg =>
        \A k \in 1..Len(registered_meta) :
            LET ref == registered_meta[k]
                i == FindRegistrationFile(ref, file_map)
            IN /\ HasSha256(ref) /\ i # 0 =>
                      ref.viewUrl = <<"/project/", file_map[i].node_id,
                                      "/files/osfstorage/", file_map[i].name, "/">>
               /\ ~HasSha256(ref) => ref.viewUrl = OrigViewUrl(ref)

\* The sum of the numbers of a sequence.
RECURSIVE SumSeq(_)
SumSeq(ns) == IF ns = <<>> THEN 0 ELSE Head(ns) + SumSeq(Tail(ns))

\* The disk usages of the leaf StatResults below a result, at any depth.
RECURSIVE LeafUsages(_), LeafUsagesOfAll(_)
LeafUsages(result) ==
    IF result.kind = "StatResult" THEN <<result.usage>>
    ELSE LeafUsagesOfAll(result.targets)

LeafUsagesOfAll(targets) ==
    IF targets = <<>> THEN <<>>
    ELSE LeafUsages(Head(targets)) \o LeafUsagesOfAll(Tail(targets))

\* The results below a result, itself included.
RECURSIVE SubResults(_)
SubResults(result) ==
    {result} \cup UNION {SubResults(result.targets[i]) : i \in 1..Len(result.targets)}

\* The sizes of the files of a file tree, at any depth, a missing size as 0.
RECURSIVE FileSizes(_), FileSizesOfAll(_)
FileSizes(fileobj) ==
    IF fileobj.kind = "file" THEN <<IF fileobj.size = NoSize THEN 0 ELSE fileobj.size>>
    ELSE FileSizesOfAll(fileobj.children)

FileSizesOfAll(children) ==
    IF children = <<>> THEN <<>>
    ELSE FileSizes(Head(children)) \o FileSizesOfAll(Tail(children))

\* C13: the disk_usage of every AggregateStatResult built for an add-on, and
\* of every aggregate below it, is the sum of the disk_usage of the leaf
\* StatResults below it, which are the files of the add-on's tree; the total
\* the Size Gate compares is the sum over the targets.
C13_DiskUsageIsSumOfLeaves ==
    /\ \A k \in 1..Len(stat_tree.results) :
          /\ \A r \in SubResults(stat_tree.results[k]) :
                TreeDiskUsage(r) = SumSeq(LeafUsages(r))
          /\ LeafUsages(stat_tree.results[k]) = FileSizes(file_trees[k])
    /\ stat_tree.total # NoSize =>
          stat_tree.total =
              SumSeq([k \in 1..Len(stat_tree.results) |->
                         SumSeq(FileSizes(file_trees[k]))])

C13_Witness ==
    /\ stat_tree.total > MaxSize
    /\ Len(file_trees) >= 2
    /\ \E k \in 1..Len(file_trees) :
          \E i \in 1..Len(file_trees[k].children) :
              \E j \in 1..Len(file_trees[k].children[i].children) :
                  file_trees[k].children[i].children[j].kind = "file"

\* C16: in a job that passed the Size Gate and whose targets have all reached
\* success, on a registration whose file references are all found,
\* archive_success runs at most once, and when it has run the job is sent.
C16_FinalizationOnce ==
    (/\ node_task.pc \in {"loop", "done"}
     /\ \A t \in Targets : target_addons[t] = ARCHIVER_SUCCESS
     /\ ~FileNotFound)
    => /\ hist.success_runs <= 1
       /\ hist.success_runs = 1 => sent

\* The four failure kinds on_failure records on the destination.
FailureKinds ==
    {ARCHIVER_SIZE_EXCEEDED, ARCHIVER_NETWORK_ERROR, ARCHIVER_FILE_NOT_FOUND,
     ARCHIVER_UNCAUGHT_ERROR}

\* C21: when the file-copy service refuses a copy request (not found, server
\* error), the target of the request is marked failed.
C21_RefusedRequestFailsTarget ==
    \A r \in copy_requests :
        r.state = "refused" =>
            target_addons[r.task] \notin {ARCHIVER_INITIATED, ARCHIVER_SUCCESS}

\* C22: once every stat_addon task of a job has ended, with a result or with
\* an error, archive_node has been run on the results or can be run.
C22_NodeRunsAfterAllStatsEnded ==
    (started /\ \A t \in Targets : stat_task[t] \in {"done", "failed"}) =>
        \/ node_task.pc # "waiting"
        \/ ENABLED ArchiveNodeGate
        \/ ENABLED ArchiveNodeSizeExceeded

\* C23: no two copy requests of a job name the same destination folder: the
\* archive folder of the same add-on with the same suffix.
C23_DistinctDestinationFolders ==
    \A r1, r2 \in copy_requests :
        r1.provider = r2.provider /\ r1.rename = r2.rename => r1 = r2

\* C25: once a task of the job has failed, the job is failed: its status is
\* failure or a failure kind is recorded on the destination.
C25_FailedTaskFailsJob ==
    hist.failures # {} =>
        status = ARCHIVER_FAILURE \/ archive_status \in FailureKinds

\* C26: the mails handle_archive_fail has sent for the failure kind recorded
\* on the destination are templates of no other failure kind.
C26_TemplatesNotShared ==
    archive_status \in FailureKinds =>
        \A k \in FailureKinds \ {archive_status} :
            mails \cap FailMails(k) = {}

\* A step in which a task of the job fails and on_failure runs.
FailingStep ==
    \/ \E t \in Targets : stat_task[t] # "failed" /\ stat_task'[t] = "failed"
    \/ node_task.pc # "failed" /\ node_task'.pc = "failed"
    \/ \E r \in copy_requests' \ copy_requests : r.state = "raised"
    \/ hist'.success_runs > hist.success_runs /\ hist'.asked = hist.asked

\* C28: when on_failure runs for a job whose status is already failure, the
\* destination's archive status, sanction, registration tree and mails stay
\* as they are and no archive-failed signal is sent, whatever the exception.
C28_AlreadyFailedChangesNothing ==
    [][FailingStep /\ status' = ARCHIVER_FAILURE =>
          /\ UNCHANGED failVars
          /\ hist'.fail_signals = hist.fail_signals]_vars

C28_Witness ==
    /\ status = ARCHIVER_FAILURE
    /\ archive_status = ARCHIVER_NETWORK_ERROR /\ hist.fail_signals = 1
    /\ Cardinality({t \in Targets : stat_task[t] = "failed"}) = 2

\* C29: the sanction has only been asked for a job whose sent flag is true;
\* a run of archive_success in which resolving a file reference raises leaves
\* sent and the registration metadata as they were and asks nothing.
C29_AskedOnlyWhenSent ==
    /\ [](hist.asked >= 1 => sent)
    /\ [][hist'.success_runs > hist.success_runs /\ FileNotFound =>
             /\ sent' = sent
             /\ registered_meta' = registered_meta
             /\ hist'.asked = hist.asked]_vars

C29_Witness ==
    /\ FileNotFound /\ hist.success_runs >= 1 /\ ~sent /\ hist.asked = 0
    /\ \E k \in 1..Len(registered_meta) :
          /\ HasSha256(registered_meta[k])
          /\ FindRegistrationFile(registered_meta[k], file_map) # 0
          /\ registered_meta[k].viewUrl = OrigViewUrl(registered_meta[k])

\* C24: among the tasks of the pipeline, the status of a target is written
\* only by its own stat_addon task, when that fails, or by archive_node, for
\* a result without files, and never by both: archive_node handles no target
\* whose stat_addon failed. (The third writer is the completion hook of the
\* file-copy service, for a target with a copy request.)
C24_SingleWriterPerTarget ==
    /\ [](\A t \in Targets :
             stat_task[t] = "failed" => \A r \in Handled : r.target_name # t)
    /\ [][\A t \in Targets :
             target_addons'[t] # target_addons[t] =>
                 \/ stat_task[t] = "queued" /\ stat_task'[t] = "failed"
                 \/ /\ node_task.pc = "loop" /\ node_task'.i = node_task.i + 1
                    /\ node_task.results[node_task.i].target_name = t
                    /\ node_task.results[node_task.i].num_files = 0
                 \/ \E r \in copy_requests :
                       /\ r.task = t /\ r.state = "posted"
                       /\ SetState(r, "reported") \in copy_requests']_vars

C24_Witness ==
    /\ \E t \in Targets :
          stat_task[t] = "failed" /\ target_addons[t] = ARCHIVER_NETWORK_ERROR
    /\ \E t \in Targets :
          stat_task[t] = "done" /\ target_addons[t] = ARCHIVER_INITIATED
    /\ node_task.pc = "waiting"

\* The files of a file tree, at any depth.
RECURSIVE FilesOfTree(_), FilesOfTrees(_)
FilesOfTree(fileobj) ==
    IF fileobj.kind = "file" THEN <<fileobj>> ELSE FilesOfTrees(fileobj.children)

FilesOfTrees(children) ==
    IF children = <<>> THEN <<>>
    ELSE FilesOfTree(Head(children)) \o FilesOfTrees(Tail(children))

\* C30: in the result built for an add-on every file counts as one file, one
\* without size included, and adds its size, or 0 without one, to the disk
\* usage; the size a folder carries adds nothing, so that a tree without any
\* file has usage 0 and 0 files and archive_node takes it for a target without
\* files.
C30_MissingSizeAndFolders ==
    \A k \in 1..Len(stat_tree.results) :
        LET files == FilesOfTree(file_trees[k])
            sized == SelectSeq(files, LAMBDA f : f.size # NoSize)
            r == stat_tree.results[k]
        IN /\ TreeNumFiles(r) = Len(files)
           /\ TreeDiskUsage(r) = SumSeq([i \in 1..Len(sized) |-> sized[i].size])
           /\ files = <<>> =>
                 /\ TreeNumFiles(r) = 0 /\ TreeDiskUsage(r) = 0
                 /\ ~NeedsCopy(TreeNumFiles(r))

C30_Witness ==
    /\ Len(stat_tree.results) = Len(file_trees)
    /\ \E k \in 1..Len(file_trees) :
          /\ file_trees[k].kind = "folder"
          /\ \E i \in 1..Len(file_trees[k].children) :
                /\ file_trees[k].children[i].kind = "file"
                /\ file_trees[k].children[i].size = NoSize
          /\ TreeNumFiles(stat_tree.results[k]) >= 1
          /\ TreeDiskUsage(stat_tree.results[k]) = 0
    /\ \E k \in 1..Len(file_trees) :
          /\ file_trees[k].kind = "folder"
          /\ file_trees[k].children # <<>>
          /\ FilesOfTree(file_trees[k]) = <<>>
          /\ TreeNumFiles(stat_tree.results[k]) = 0

\* C27: every payload built has source path '/' and destination path '/',
\* the job's source node as source and its destination node as destination,
\* the archive provider as destination provider, as rename the name given
\* with every '/' turned into '-', and a source revision exactly when a
\* revision was passed.
C27_PayloadShape ==
    payload # <<>> =>
        LET p == payload[1] IN
            /\ p.source.path = "/" /\ p.destination.path = "/"
            /\ p.source.nid = SrcId /\ p.destination.nid = DstId
            /\ p.source.provider = payload_args.addon_short_name
            /\ p.destination.provider = ARCHIVE_PROVIDER
            /\ Len(p.rename) = Len(payload_args.rename)
            /\ \A i \in 1..Len(p.rename) :
                  /\ p.rename[i] # "/"
                  /\ p.rename[i] =
                        IF payload_args.rename[i] = "/" THEN "-"
                        ELSE payload_args.rename[i]
            /\ ("revision" \in DOMAIN p.source) <=> payload_args.revision # NoRevision
            /\ "revision" \in DOMAIN p.source =>
                  p.source.revision = payload_args.revision

C27_Witness ==
    /\ payload # <<>>
    /\ Cardinality({i \in 1..Len(payload_args.rename) :
                       payload_args.rename[i] = "/"}) >= 2
    /\ payload_args.revision = "latest"
    /\ "revision" \in DOMAIN payload[1].source

====
